---- MODULE Spec2Model ----
(***************************************************************************)
(* A model of the StripeConnect client (src/src/service/StripeConnect.ts): *)
(* the three retried operations createChargeByToken, createChargeByCard    *)
(* and createRefundForCharge, the six single-call customer, card, token    *)
(* and charge-list operations, the two OAuth posts, the provider they talk *)
(* to, and the timers of runWithDelay.  Every await of the code is a step  *)
(* boundary: an action runs the code from one await to the next.           *)
(***************************************************************************)
EXTENDS Integers, Sequences, FiniteSets, TLC

VARIABLES configuration, config, calls, ledger

vars == <<configuration, config, calls, ledger>>

(***************************************************************************)
(* Optional values: undefined is the empty tuple, a defined value v is the *)
(* one-element tuple <<v>>.                                                *)
(***************************************************************************)
None == <<>>

Some(v) == <<v>>

(***************************************************************************)
(* Input domains.                                                          *)
(***************************************************************************)
Callers == {"c1"}

Accounts == {"acct_X", "acct_Y"}

IdempotencyKeys == {"k1", "k2"}

Configurations ==
    { [stripeSecretKey |-> "sk_test",
       stripeClientId |-> "ca_test",
       stripeConnectAuthorizeURL |-> "https://connect.stripe.com/oauth/token",
       stripeConnectDeAuthorizeURL |-> "https://connect.stripe.com/oauth/deauthorize"],
      [stripeSecretKey |-> "sk_live",
       stripeClientId |-> "ca_live",
       stripeConnectAuthorizeURL |-> "https://connect.example.com/oauth/token",
       stripeConnectDeAuthorizeURL |-> "https://connect.example.com/oauth/deauthorize"] }

\* The values of the ChargeParameters interface.
ChargeParameters ==
    [customer : {None, Some("cus_1")},
     amountInCents : {10000},
     applicationFeeInCents : {50},
     currency : {"EUR"},
     description : {"a unit test generate charge"},
     idempotency_key : IdempotencyKeys,
     metadata : {[chargeFor |-> "test charge"]}]

\* The nine positional parameters of createChargeByToken /
\* createChargeByCard as bound by a call that passes all nine (source is
\* the token, respectively the card id).  A parameter from the third on is
\* undefined (None) when the call passes no argument for it.
PositionalArgs(stripeAccount, source, p) ==
    [stripeAccount |-> stripeAccount,
     source |-> source,
     customer |-> p.customer,
     amountInCents |-> Some(p.amountInCents),
     applicationFeeInCents |-> Some(p.applicationFeeInCents),
     currency |-> Some(p.currency),
     description |-> Some(p.description),
     idempotency_key |-> Some(p.idempotency_key),
     metadata |-> Some(p.metadata)]

ChargeArgs ==
    { PositionalArgs(account, "tok_visa_debit", p) :
        account \in Accounts, p \in ChargeParameters }

\* The parameters as bound by a call with three arguments (account, token
\* or card id, ChargeParameters object): the object is the third
\* parameter, customer, and the six parameters after it are undefined.
ThreeArgs(stripeAccount, source, p) ==
    [stripeAccount |-> stripeAccount,
     source |-> source,
     customer |-> Some(p),
     amountInCents |-> None,
     applicationFeeInCents |-> None,
     currency |-> None,
     description |-> None,
     idempotency_key |-> None,
     metadata |-> None]

ChargeArgsFromObject ==
    { ThreeArgs(account, "tok_visa_debit", p) :
        account \in Accounts, p \in ChargeParameters }

\* The positional arguments of createRefundForCharge; an omitted argument
\* is None.
RefundArgs ==
    [stripeAccount : Accounts,
     chargeToken : {"ch_Y"},
     reason : {None, Some("duplicate")},
     refundApplicationFee : {None, Some(FALSE)},
     amountInCents : {None, Some(5000)}]

\* The errors the provider rejects a call with.
ProviderErrors ==
    { [name |-> "Error", rawType |-> "card_error",
       message |-> "Your card was declined."],
      [name |-> "Error", rawType |-> "invalid_request_error",
       message |-> "Charge ch_Y has already been refunded."],
      [name |-> "Error", rawType |-> "api_connection_error",
       message |-> "An error occurred with our connection to Stripe."] }

\* The reasons the provider documents for a refund.
RefundReasons == {"duplicate", "fraudulent", "requested_by_customer"}

(***************************************************************************)
(* The retry policy.                                                       *)
(***************************************************************************)
InitialDelay == 1000

NextDelayConstant(delay) == delay

NextDelay(delay) == delay * 2

LoopCondition(retries, complete) == retries < 3 /\ ~complete

MayRetryOnce(retries) == retries < 1

MayRetry(retries) == retries < 2

(***************************************************************************)
(* Error wrappers: super(message) with the caught error as message turns   *)
(* the error into the string "<name>: <message>".                          *)
(***************************************************************************)
ErrorToString(error) == error.name \o ": " \o error.message

ChargeError(error) == [name |-> "ChargeError", message |-> ErrorToString(error)]

RefundError(error) == [name |-> "RefundError", message |-> ErrorToString(error)]

(***************************************************************************)
(* Requests.                                                               *)
(***************************************************************************)
ChargeByTokenRequestNoKey(secretKey, a) ==
    [api |-> "charges.create",
     apiKey |-> secretKey,
     params |-> [amount |-> a.amountInCents,
                 currency |-> a.currency,
                 description |-> a.description,
                 customer |-> a.customer,
                 application_fee |-> a.applicationFeeInCents,
                 source |-> a.source,
                 metadata |-> a.metadata],
     options |-> [stripe_account |-> a.stripeAccount,
                  idempotency_key |-> None]]

ChargeByTokenRequest(secretKey, a) ==
    [api |-> "charges.create",
     apiKey |-> secretKey,
     params |-> [amount |-> a.amountInCents,
                 currency |-> a.currency,
                 description |-> a.description,
                 customer |-> a.customer,
                 application_fee |-> a.applicationFeeInCents,
                 source |-> a.source,
                 metadata |-> a.metadata],
     options |-> [stripe_account |-> a.stripeAccount,
                  idempotency_key |-> a.idempotency_key]]

TokenRequestOnPlatform(secretKey, a) ==
    [api |-> "tokens.create",
     apiKey |-> secretKey,
     params |-> [card |-> a.source, customer |-> a.customer],
     options |-> [stripe_account |-> "", idempotency_key |-> None]]

TokenRequest(secretKey, a) ==
    [api |-> "tokens.create",
     apiKey |-> secretKey,
     params |-> [card |-> a.source, customer |-> a.customer],
     options |-> [stripe_account |-> a.stripeAccount,
                  idempotency_key |-> None]]

ChargeByCardRequestTokenAsKey(secretKey, a, cardToken) ==
    [api |-> "charges.create",
     apiKey |-> secretKey,
     params |-> [amount |-> a.amountInCents,
                 currency |-> a.currency,
                 description |-> a.description,
                 customer |-> None,
                 application_fee |-> a.applicationFeeInCents,
                 source |-> cardToken.id,
                 metadata |-> a.metadata],
     options |-> [stripe_account |-> a.stripeAccount,
                  idempotency_key |-> Some(cardToken.id)]]

ChargeByCardRequestCardAsSource(secretKey, a, cardToken) ==
    [api |-> "charges.create",
     apiKey |-> secretKey,
     params |-> [amount |-> a.amountInCents,
                 currency |-> a.currency,
                 description |-> a.description,
                 customer |-> None,
                 application_fee |-> a.applicationFeeInCents,
                 source |-> a.source,
                 metadata |-> a.metadata],
     options |-> [stripe_account |-> a.stripeAccount,
                  idempotency_key |-> a.idempotency_key]]

ChargeByCardRequest(secretKey, a, cardToken) ==
    [api |-> "charges.create",
     apiKey |-> secretKey,
     params |-> [amount |-> a.amountInCents,
                 currency |-> a.currency,
                 description |-> a.description,
                 customer |-> None,
                 application_fee |-> a.applicationFeeInCents,
                 source |-> cardToken.id,
                 metadata |-> a.metadata],
     options |-> [stripe_account |-> a.stripeAccount,
                  idempotency_key |-> a.idempotency_key]]

\* Default parameter values of createRefundForCharge.
DefaultReason == "request_by_customer"

DefaultRefundApplicationFee == TRUE

OrDefault(arg, default) == IF arg = None THEN default ELSE arg[1]

RefundRequest(secretKey, a) ==
    [api |-> "refunds.create",
     apiKey |-> secretKey,
     params |-> [charge |-> a.chargeToken,
                 amount |-> a.amountInCents,
                 refund_application_fee |->
                     OrDefault(a.refundApplicationFee, DefaultRefundApplicationFee),
                 reason |-> OrDefault(a.reason, DefaultReason)],
     options |-> [stripe_account |-> a.stripeAccount,
                  idempotency_key |-> None]]

DashboardRefundRawType(error, a) ==
    [id |-> "STRIPE_DASHBOARD",
     balance_transaction |-> error.rawType,
     amount |-> a.amountInCents,
     charge |-> a.chargeToken]

\* The sentinel createRefundForCharge returns on an invalid-request error.
DashboardRefund(error, a) ==
    [id |-> "STRIPE_DASHBOARD",
     balance_transaction |-> error.message,
     amount |-> a.amountInCents,
     charge |-> a.chargeToken]

IsInvalidRequest(error) == error.rawType = "invalid_request_error"

(***************************************************************************)
(* The provider.  It keeps the objects it created; a create request that   *)
(* carries the idempotency key of an earlier request creates nothing and   *)
(* is answered with the object of that earlier request.                    *)
(***************************************************************************)
ObjectOf(api) == IF api = "charges.create" THEN "charge" ELSE "refund"

Duplicates(led, request) ==
    { i \in 1..Len(led) :
        /\ request.options.idempotency_key # None
        /\ led[i].idempotency_key = request.options.idempotency_key }

ProviderApply(led, request, c) ==
    IF Duplicates(led, request) # {}
    THEN led
    ELSE Append(led, [object |-> ObjectOf(request.api),
                      id |-> Len(led) + 1,
                      idempotency_key |-> request.options.idempotency_key,
                      stripe_account |-> request.options.stripe_account,
                      request |-> request.params,
                      by |-> c])

ProviderObject(led, request) ==
    IF Duplicates(led, request) # {}
    THEN led[CHOOSE i \in Duplicates(led, request) : TRUE]
    ELSE led[Len(led)]

(***************************************************************************)
(* One call of a public operation.                                         *)
(***************************************************************************)
IdleCall ==
    [op |-> "none", pc |-> "idle", args |-> None,
     delay |-> 0, retries |-> 0, complete |-> FALSE, cardToken |-> None,
     sent |-> <<>>, replies |-> <<>>, waits |-> <<>>,
     result |-> [kind |-> "pending", value |-> None]]

CreateRequestExchangesInLoop(secretKey, s) ==
    IF s.op = "createChargeByToken" THEN ChargeByTokenRequest(secretKey, s.args)
    ELSE IF s.op = "createChargeByCard"
         THEN IF s.retries > 0
              THEN TokenRequest(secretKey, s.args)
              ELSE ChargeByCardRequest(secretKey, s.args, s.cardToken[1])
         ELSE RefundRequest(secretKey, s.args)

CreateRequest(secretKey, s) ==
    IF s.op = "createChargeByToken" THEN ChargeByTokenRequest(secretKey, s.args)
    ELSE IF s.op = "createChargeByCard"
         THEN ChargeByCardRequest(secretKey, s.args, s.cardToken[1])
         ELSE RefundRequest(secretKey, s.args)

\* The head of the while loop: either the next create call is issued, or
\* the loop is left and the function ends without a value.
LoopHead(secretKey, s) ==
    IF LoopCondition(s.retries, s.complete)
    THEN [s EXCEPT !.pc = "awaitCreate",
                   !.sent = Append(@, CreateRequest(secretKey, s))]
    ELSE [s EXCEPT !.pc = "done",
                   !.result = [kind |-> "return", value |-> None]]

\* let delay = 1000; let retries = 0; let complete = false; while ...
EnterLoop(secretKey, s) ==
    LoopHead(secretKey,
             [s EXCEPT !.delay = InitialDelay, !.retries = 0, !.complete = FALSE])

ChargeCatchDeclinedIsFinal(s, error) ==
    IF MayRetry(s.retries) /\ error.rawType # "card_error"
    THEN [s EXCEPT !.pc = "awaitDelay", !.waits = Append(@, s.delay)]
    ELSE [s EXCEPT !.pc = "done",
                   !.result = [kind |-> "throw", value |-> Some(ChargeError(error))]]

ChargeCatchRetriesAtOnce(s, error) ==
    IF MayRetry(s.retries)
    THEN [s EXCEPT !.pc = "awaitCreate",
                   !.waits = Append(@, s.delay),
                   !.delay = NextDelay(s.delay),
                   !.retries = s.retries + 1,
                   !.sent = Append(@, s.sent[Len(s.sent)])]
    ELSE [s EXCEPT !.pc = "done",
                   !.result = [kind |-> "throw", value |-> Some(ChargeError(error))]]

\* The catch block of the two charge operations.
ChargeCatch(s, error) ==
    IF MayRetry(s.retries)
    THEN [s EXCEPT !.pc = "awaitDelay", !.waits = Append(@, s.delay)]
    ELSE [s EXCEPT !.pc = "done",
                   !.result = [kind |-> "throw", value |-> Some(ChargeError(error))]]

RefundCatchRetryAll(s, error) ==
    IF MayRetry(s.retries)
    THEN [s EXCEPT !.pc = "awaitDelay", !.waits = Append(@, s.delay)]
    ELSE [s EXCEPT !.pc = "done",
                   !.result = [kind |-> "throw",
                               value |-> Some(RefundError(error))]]

RefundCatchRetryFirst(s, error) ==
    IF MayRetry(s.retries)
    THEN [s EXCEPT !.pc = "awaitDelay", !.waits = Append(@, s.delay)]
    ELSE IF IsInvalidRequest(error)
         THEN [s EXCEPT !.pc = "done",
                        !.result = [kind |-> "return",
                                    value |-> Some(DashboardRefund(error, s.args))]]
         ELSE [s EXCEPT !.pc = "done",
                        !.result = [kind |-> "throw",
                                    value |-> Some(RefundError(error))]]

\* The catch block of createRefundForCharge.
RefundCatch(s, error) ==
    IF IsInvalidRequest(error)
    THEN [s EXCEPT !.pc = "done",
                   !.result = [kind |-> "return",
                               value |-> Some(DashboardRefund(error, s.args))]]
    ELSE IF MayRetry(s.retries)
         THEN [s EXCEPT !.pc = "awaitDelay", !.waits = Append(@, s.delay)]
         ELSE [s EXCEPT !.pc = "done",
                        !.result = [kind |-> "throw",
                                    value |-> Some(RefundError(error))]]

CreateReturnFlagOnly(s, object) ==
    [s EXCEPT !.pc = "done",
              !.complete = TRUE,
              !.result = [kind |-> "return", value |-> None]]

\* complete = true; return charge;   (return refund; for a refund)
CreateReturn(s, object) ==
    [s EXCEPT !.pc = "done",
              !.complete = IF s.op = "createRefundForCharge" THEN @ ELSE TRUE,
              !.result = [kind |-> "return", value |-> Some(object)]]

\* delay = delay * 2; retries++;
AfterDelay(s) ==
    [s EXCEPT !.delay = NextDelay(s.delay), !.retries = s.retries + 1]

(***************************************************************************)
(* Actions.                                                                *)
(***************************************************************************)
ConstructorSwapsURLs(cfg) ==
    [stripeSecretKey |-> cfg.stripeSecretKey,
     stripeClientId |-> cfg.stripeClientId,
     stripeConnectAuthorizeURL |-> cfg.stripeConnectDeAuthorizeURL,
     stripeConnectDeAuthorizeURL |-> cfg.stripeConnectAuthorizeURL]

\* constructor(configuration): the four private properties of the client.
Constructor(cfg) ==
    [stripeSecretKey |-> cfg.stripeSecretKey,
     stripeClientId |-> cfg.stripeClientId,
     stripeConnectAuthorizeURL |-> cfg.stripeConnectAuthorizeURL,
     stripeConnectDeAuthorizeURL |-> cfg.stripeConnectDeAuthorizeURL]

\* configuration is the object the client was constructed with.
Init ==
    /\ configuration \in Configurations
    /\ config = Constructor(configuration)
    /\ calls = [c \in Callers |-> IdleCall]
    /\ ledger = <<>>

CallChargeByToken(c) ==
    /\ calls[c].pc = "idle"
    /\ \E a \in ChargeArgs :
         calls' = [calls EXCEPT ![c] =
                     EnterLoop(config.stripeSecretKey,
                               [@ EXCEPT !.op = "createChargeByToken", !.args = a])]
    /\ UNCHANGED <<configuration, config, ledger>>

CallChargeByCard(c) ==
    /\ calls[c].pc = "idle"
    /\ \E a \in ChargeArgs :
         calls' = [calls EXCEPT ![c] =
                     [@ EXCEPT !.op = "createChargeByCard", !.args = a,
                               !.pc = "awaitToken",
                               !.sent = Append(@, TokenRequest(config.stripeSecretKey, a))]]
    /\ UNCHANGED <<configuration, config, ledger>>

CallRefundForCharge(c) ==
    /\ calls[c].pc = "idle"
    /\ \E a \in RefundArgs :
         calls' = [calls EXCEPT ![c] =
                     EnterLoop(config.stripeSecretKey,
                               [@ EXCEPT !.op = "createRefundForCharge", !.args = a])]
    /\ UNCHANGED <<configuration, config, ledger>>

\* tokens.create resolves: the card token is bound and the loop is entered.
TokenResolve(c) ==
    /\ calls[c].pc = "awaitToken"
    /\ \E id \in {"tok_1", "tok_2"} :
         calls' = [calls EXCEPT ![c] =
                     EnterLoop(config.stripeSecretKey,
                               [@ EXCEPT !.cardToken = Some([id |-> id]),
                                         !.replies = Append(@, [ok |-> TRUE, applied |-> TRUE,
                                                                 value |-> [id |-> id]])])]
    /\ UNCHANGED <<configuration, config, ledger>>

TokenRejectChargesCard(c) ==
    /\ calls[c].pc = "awaitToken"
    /\ \E error \in ProviderErrors :
         calls' = [calls EXCEPT ![c] =
                     EnterLoop(config.stripeSecretKey,
                               [@ EXCEPT !.cardToken = Some([id |-> calls[c].args.source]),
                                         !.replies = Append(@, [ok |-> FALSE, applied |-> FALSE,
                                                                 value |-> error])])]
    /\ UNCHANGED <<configuration, config, ledger>>

\* tokens.create rejects: no try block surrounds it, the provider's error
\* leaves createChargeByCard as it is.
TokenReject(c) ==
    /\ calls[c].pc = "awaitToken"
    /\ \E error \in ProviderErrors :
         calls' = [calls EXCEPT ![c] =
                     [@ EXCEPT !.pc = "done",
                               !.replies = Append(@, [ok |-> FALSE, applied |-> FALSE,
                                                       value |-> error]),
                               !.result = [kind |-> "throw", value |-> Some(error)]]]
    /\ UNCHANGED <<configuration, config, ledger>>

\* charges.create / refunds.create resolves.
CreateResolve(c) ==
    /\ calls[c].pc = "awaitCreate"
    /\ LET s == calls[c]
           request == s.sent[Len(s.sent)]
           led == ProviderApply(ledger, request, c)
           object == ProviderObject(led, request)
       IN /\ ledger' = led
          /\ calls' = [calls EXCEPT ![c] =
                         CreateReturn([s EXCEPT !.replies =
                                          Append(@, [ok |-> TRUE, applied |-> TRUE,
                                                     value |-> object])],
                                      object)]
    /\ UNCHANGED <<configuration, config>>

\* charges.create / refunds.create rejects.  A connection error may hide a
\* request the provider has applied.
CreateReject(c) ==
    /\ calls[c].pc = "awaitCreate"
    /\ \E error \in ProviderErrors, applied \in BOOLEAN :
         LET s == calls[c]
             request == s.sent[Len(s.sent)]
             logged == [s EXCEPT !.replies = Append(@, [ok |-> FALSE, applied |-> applied,
                                                        value |-> error])]
         IN /\ applied => error.rawType = "api_connection_error"
            /\ ledger' = IF applied THEN ProviderApply(ledger, request, c) ELSE ledger
            /\ calls' = [calls EXCEPT ![c] =
                           IF s.op = "createRefundForCharge"
                           THEN RefundCatch(logged, error)
                           ELSE ChargeCatch(logged, error)]
    /\ UNCHANGED <<configuration, config>>

DelayElapsedNeverResolves(c) ==
    /\ calls[c].pc = "awaitDelay"
    /\ UNCHANGED vars

DelayElapsedSharedCounters(c) ==
    /\ calls[c].pc = "awaitDelay"
    /\ calls' = [d \in DOMAIN calls |->
                   IF d = c
                   THEN LoopHead(config.stripeSecretKey, AfterDelay(calls[c]))
                   ELSE [calls[d] EXCEPT !.retries = calls[c].retries,
                                         !.delay = calls[c].delay]]
    /\ UNCHANGED <<configuration, config, ledger>>

\* The timer of runWithDelay fires: the catch block ends and the loop
\* condition is evaluated again.
DelayElapsed(c) ==
    /\ calls[c].pc = "awaitDelay"
    /\ calls' = [calls EXCEPT ![c] = LoopHead(config.stripeSecretKey, AfterDelay(@))]
    /\ UNCHANGED <<configuration, config, ledger>>

(***************************************************************************)
(* The customer, card and token operations and loadCharges: one provider   *)
(* call each, no retry.                                                    *)
(***************************************************************************)
MaxCards == 2

SimpleOps ==
    {"createCustomer", "retrieveToken", "createCard", "removeCard",
     "loadCards", "loadCharges"}

SimpleArgs(op) ==
    CASE op = "createCustomer" -> [email : {"user@example.com"}, tokenId : {"tok_visa_debit"}]
      [] op = "retrieveToken" -> [tokenId : {"tok_visa_debit"}]
      [] op = "createCard" -> [customerId : {"cus_1"}, tokenId : {"tok_visa_debit"}]
      [] op = "removeCard" -> [customerId : {"cus_1"}, cardId : {"card_1"}]
      [] op = "loadCards" -> [customerId : {"cus_1"}]
      [] op = "loadCharges" -> [stripeAccount : Accounts, limit : {None, Some(2)}]

SimpleRequest(secretKey, op, a) ==
    CASE op = "createCustomer" ->
            [api |-> "customers.create", apiKey |-> secretKey,
             params |-> [email |-> a.email, source |-> a.tokenId],
             options |-> None]
      [] op = "retrieveToken" ->
            [api |-> "tokens.retrieve", apiKey |-> secretKey,
             params |-> [id |-> a.tokenId],
             options |-> None]
      [] op = "createCard" ->
            [api |-> "customers.createSource", apiKey |-> secretKey,
             params |-> [customer |-> a.customerId, source |-> a.tokenId],
             options |-> None]
      [] op = "removeCard" ->
            [api |-> "customers.deleteCard", apiKey |-> secretKey,
             params |-> [customer |-> a.customerId, card |-> a.cardId],
             options |-> None]
      [] op = "loadCards" ->
            [api |-> "customers.listCards", apiKey |-> secretKey,
             params |-> [customer |-> a.customerId],
             options |-> None]
      [] op = "loadCharges" ->
            [api |-> "charges.list", apiKey |-> secretKey,
             params |-> [limit |-> a.limit],
             options |-> Some([stripe_account |-> a.stripeAccount])]

\* The provider's card objects; country stands for the fields PaymentCard
\* does not keep.
StripeCards ==
    { [id |-> "card_1", brand |-> "Visa", exp_month |-> 8, exp_year |-> 2019,
       last4 |-> "5556", country |-> "US"],
      [id |-> "card_2", brand |-> "Visa", exp_month |-> 8, exp_year |-> 2020,
       last4 |-> "5556", country |-> "US"],
      [id |-> "card_3", brand |-> "MasterCard", exp_month |-> 12, exp_year |-> 2019,
       last4 |-> "4444", country |-> "FI"] }

CardLists == UNION { [1..n -> StripeCards] : n \in 0..MaxCards }

ChargeLists == { <<>>, <<[id |-> "ch_1"]>>, <<[id |-> "ch_1"], [id |-> "ch_2"]>> }

\* What the provider resolves the call of a simple operation with.
SimpleResponses(op) ==
    CASE op = "createCustomer" -> {[object |-> "customer", id |-> "cus_1"]}
      [] op = "retrieveToken" -> {[object |-> "token", id |-> "tok_visa_debit"]}
      [] op = "createCard" -> StripeCards
      [] op = "removeCard" -> {[deleted |-> TRUE, id |-> "card_1"]}
      [] op = "loadCards" -> {[object |-> "list", data |-> l] : l \in CardLists}
      [] op = "loadCharges" -> {[object |-> "list", data |-> l] : l \in ChargeLists}

BuildFromStripeCardYearFromMonth(stripeCard) ==
    [id |-> stripeCard.id,
     brand |-> stripeCard.brand,
     expirationMonth |-> stripeCard.exp_month,
     expirationYear |-> stripeCard.exp_month,
     lastFourDigits |-> stripeCard.last4]

BuildFromStripeCard(stripeCard) ==
    [id |-> stripeCard.id,
     brand |-> stripeCard.brand,
     expirationMonth |-> stripeCard.exp_month,
     expirationYear |-> stripeCard.exp_year,
     lastFourDigits |-> stripeCard.last4]

\* The value a simple operation returns for the provider's response.
SimpleReturn(op, response) ==
    CASE op = "createCard" -> BuildFromStripeCard(response)
      [] op = "loadCards" ->
            [i \in 1..Len(response.data) |-> BuildFromStripeCard(response.data[i])]
      [] op = "loadCharges" -> response.data
      [] OTHER -> response

CardError(error) == [name |-> "CardError", message |-> ErrorToString(error)]

SimpleCatchRetries(s, error) ==
    IF s.retries < 1
    THEN [s EXCEPT !.pc = "awaitSimple", !.retries = @ + 1,
                   !.sent = Append(@, s.sent[1])]
    ELSE [s EXCEPT !.pc = "done",
                   !.result = [kind |-> "throw", value |-> Some(CardError(error))]]

\* catch (error) { throw new CardError(error); }
SimpleCatch(s, error) ==
    [s EXCEPT !.pc = "done",
              !.result = [kind |-> "throw", value |-> Some(CardError(error))]]

StartSimple(c, op) ==
    /\ calls[c].pc = "idle"
    /\ \E a \in SimpleArgs(op) :
         calls' = [calls EXCEPT ![c] =
                     [@ EXCEPT !.op = op, !.args = a, !.pc = "awaitSimple",
                               !.sent = Append(@, SimpleRequest(config.stripeSecretKey, op, a))]]
    /\ UNCHANGED <<configuration, config, ledger>>

CallCreateCustomer(c) == StartSimple(c, "createCustomer")

CallRetrieveToken(c) == StartSimple(c, "retrieveToken")

CallCreateCard(c) == StartSimple(c, "createCard")

CallRemoveCard(c) == StartSimple(c, "removeCard")

CallLoadCards(c) == StartSimple(c, "loadCards")

CallLoadCharges(c) == StartSimple(c, "loadCharges")

SimpleResolve(c) ==
    /\ calls[c].pc = "awaitSimple"
    /\ \E response \in SimpleResponses(calls[c].op) :
         calls' = [calls EXCEPT ![c] =
                     [@ EXCEPT !.pc = "done",
                               !.replies = Append(@, [ok |-> TRUE, applied |-> TRUE,
                                                       value |-> response]),
                               !.result = [kind |-> "return",
                                           value |-> Some(SimpleReturn(calls[c].op, response))]]]
    /\ UNCHANGED <<configuration, config, ledger>>

SimpleReject(c) ==
    /\ calls[c].pc = "awaitSimple"
    /\ \E error \in ProviderErrors :
         calls' = [calls EXCEPT ![c] =
                     SimpleCatch([@ EXCEPT !.replies =
                                     Append(@, [ok |-> FALSE, applied |-> FALSE,
                                                value |-> error])],
                                 error)]
    /\ UNCHANGED <<configuration, config, ledger>>

(***************************************************************************)
(* connectAccountToStripeConnect and disconnectAccountFromStripeConnect:   *)
(* one form-encoded POST each, no retry.                                   *)
(***************************************************************************)
DefaultGrantType == "authorization_code"

ConnectArgs ==
    [tokenOrCode : {"ac_123"},
     grantType : {None, Some("authorization_code"), Some("refresh_token")}]

DisconnectArgs == [stripeUserId : Accounts]

ConnectFormBothFields(cfg, a) ==
    [grant_type |-> OrDefault(a.grantType, DefaultGrantType),
     client_id |-> cfg.stripeClientId,
     client_secret |-> cfg.stripeSecretKey,
     code |-> Some(a.tokenOrCode),
     refresh_token |-> IF OrDefault(a.grantType, DefaultGrantType) = "authorization_code"
                       THEN None ELSE Some(a.tokenOrCode)]

\* The form of the connect POST; a field that is not set is None.
ConnectForm(cfg, a) ==
    LET grantType == OrDefault(a.grantType, DefaultGrantType) IN
    [grant_type |-> grantType,
     client_id |-> cfg.stripeClientId,
     client_secret |-> cfg.stripeSecretKey,
     code |-> IF grantType = "authorization_code" THEN Some(a.tokenOrCode) ELSE None,
     refresh_token |-> IF grantType = "authorization_code" THEN None ELSE Some(a.tokenOrCode)]

ConnectRequest(cfg, a) ==
    [api |-> "rp.post",
     method |-> "POST",
     uri |-> cfg.stripeConnectAuthorizeURL,
     form |-> ConnectForm(cfg, a),
     headers |-> None]

DisconnectRequest(cfg, a) ==
    [api |-> "rp.post",
     method |-> "POST",
     uri |-> cfg.stripeConnectDeAuthorizeURL,
     form |-> [client_id |-> cfg.stripeClientId, stripe_user_id |-> a.stripeUserId],
     headers |-> Some([Authorization |-> "Bearer " \o cfg.stripeSecretKey])]

\* Response bodies of a resolved POST: JSON text (with the value it parses
\* to) or text that JSON.parse rejects.
ResponseBodies ==
    { [valid |-> TRUE, value |-> Some([stripe_user_id |-> "acct_X", scope |-> "read_write"])],
      [valid |-> FALSE, value |-> None] }

\* What a rejected POST is rejected with: error.error is the payload.
PostErrors ==
    { [name |-> "StatusCodeError", error |-> Some("invalid_grant")],
      [name |-> "RequestError", error |-> Some("ECONNREFUSED")] }

\* What JSON.parse throws; it has no error property.
SyntaxError == [name |-> "SyntaxError", error |-> None]

\* new StripeAuthorisationError(error.error): an undefined message is ''.
StripeAuthorisationError(payload) ==
    [name |-> "StripeAuthorisationError",
     message |-> IF payload = None THEN "" ELSE payload[1]]

PostCatchRetries(s, error) ==
    IF s.retries < 1
    THEN [s EXCEPT !.pc = "awaitPost", !.retries = @ + 1,
                   !.sent = Append(@, s.sent[1])]
    ELSE [s EXCEPT !.pc = "done",
                   !.result = [kind |-> "throw",
                               value |-> Some(StripeAuthorisationError(error.error))]]

\* catch (error) { throw new StripeAuthorisationError(error.error); }
PostCatch(s, error) ==
    [s EXCEPT !.pc = "done",
              !.result = [kind |-> "throw",
                          value |-> Some(StripeAuthorisationError(error.error))]]

CallConnect(c) ==
    /\ calls[c].pc = "idle"
    /\ \E a \in ConnectArgs :
         calls' = [calls EXCEPT ![c] =
                     [@ EXCEPT !.op = "connectAccountToStripeConnect", !.args = a,
                               !.pc = "awaitPost",
                               !.sent = Append(@, ConnectRequest(config, a))]]
    /\ UNCHANGED <<configuration, config, ledger>>

CallDisconnect(c) ==
    /\ calls[c].pc = "idle"
    /\ \E a \in DisconnectArgs :
         calls' = [calls EXCEPT ![c] =
                     [@ EXCEPT !.op = "disconnectAccountFromStripeConnect", !.args = a,
                               !.pc = "awaitPost",
                               !.sent = Append(@, DisconnectRequest(config, a))]]
    /\ UNCHANGED <<configuration, config, ledger>>

\* rp.post resolves: return JSON.parse(responseFromServer), inside the try.
PostResolve(c) ==
    /\ calls[c].pc = "awaitPost"
    /\ \E body \in ResponseBodies :
         LET logged == [calls[c] EXCEPT !.replies =
                           Append(@, [ok |-> TRUE, applied |-> TRUE, value |-> body])]
         IN calls' = [calls EXCEPT ![c] =
                        IF body.valid
                        THEN [logged EXCEPT !.pc = "done",
                                            !.result = [kind |-> "return",
                                                        value |-> body.value]]
                        ELSE PostCatch(logged, SyntaxError)]
    /\ UNCHANGED <<configuration, config, ledger>>

PostReject(c) ==
    /\ calls[c].pc = "awaitPost"
    /\ \E error \in PostErrors :
         calls' = [calls EXCEPT ![c] =
                     PostCatch([@ EXCEPT !.replies =
                                   Append(@, [ok |-> FALSE, applied |-> FALSE,
                                              value |-> error])],
                               error)]
    /\ UNCHANGED <<configuration, config, ledger>>

Next ==
    \E c \in DOMAIN calls :
        \/ CallChargeByToken(c)
        \/ CallChargeByCard(c)
        \/ CallRefundForCharge(c)
        \/ TokenResolve(c)
        \/ TokenReject(c)
        \/ CreateResolve(c)
        \/ CreateReject(c)
        \/ DelayElapsed(c)
        \/ CallCreateCustomer(c)
        \/ CallRetrieveToken(c)
        \/ CallCreateCard(c)
        \/ CallRemoveCard(c)
        \/ CallLoadCards(c)
        \/ CallLoadCharges(c)
        \/ SimpleResolve(c)
        \/ SimpleReject(c)
        \/ CallConnect(c)
        \/ CallDisconnect(c)
        \/ PostResolve(c)
        \/ PostReject(c)

Spec == Init /\ [][Next]_vars

(***************************************************************************)
(* The charge operations called as test.ts calls them, with three          *)
(* arguments: createChargeByToken(account, token, parameters) and          *)
(* createChargeByCard(account, card.id, parameters).                       *)
(***************************************************************************)
CallChargeByTokenWithObject(c) ==
    /\ calls[c].pc = "idle"
    /\ \E a \in ChargeArgsFromObject :
         calls' = [calls EXCEPT ![c] =
                     EnterLoop(config.stripeSecretKey,
                               [@ EXCEPT !.op = "createChargeByToken", !.args = a])]
    /\ UNCHANGED <<configuration, config, ledger>>

CallChargeByCardWithObject(c) ==
    /\ calls[c].pc = "idle"
    /\ \E a \in ChargeArgsFromObject :
         calls' = [calls EXCEPT ![c] =
                     [@ EXCEPT !.op = "createChargeByCard", !.args = a,
                               !.pc = "awaitToken",
                               !.sent = Append(@, TokenRequest(config.stripeSecretKey, a))]]
    /\ UNCHANGED <<configuration, config, ledger>>

NextObject ==
    \E c \in DOMAIN calls :
        \/ CallChargeByTokenWithObject(c)
        \/ CallChargeByCardWithObject(c)
        \/ TokenResolve(c)
        \/ TokenReject(c)
        \/ CreateResolve(c)
        \/ CreateReject(c)
        \/ DelayElapsed(c)

SpecObject == Init /\ [][NextObject]_vars

(***************************************************************************)
(* What a call has done so far, read from its logs.                        *)
(***************************************************************************)
(***************************************************************************)
(* The program under the assumption that the provider answers every call   *)
(* and that the timer of every runWithDelay fires.                         *)
(***************************************************************************)
Fairness ==
    \A c \in Callers :
        /\ WF_vars(TokenResolve(c) \/ TokenReject(c))
        /\ WF_vars(CreateResolve(c) \/ CreateReject(c))
        /\ WF_vars(DelayElapsed(c))

FairSpec == Spec /\ Fairness

(***************************************************************************)
(* Two calls in flight on one client instance.  The methods are async:     *)
(* a second call may start while the first is suspended at an await, and   *)
(* the calls' continuations run in any order.  retries, delay and complete *)
(* are let-bound locals of each invocation.                                *)
(***************************************************************************)
ConcurrentCallers == {"c1", "c2"}

ConcurrentChargeArgs ==
    { PositionalArgs("acct_X", "tok_visa_debit", p) :
        p \in {q \in ChargeParameters : q.customer = None} }

ConcurrentRefundArgs ==
    { a \in RefundArgs : /\ a.stripeAccount = "acct_X"
                         /\ a.reason = None
                         /\ a.refundApplicationFee = None
                         /\ a.amountInCents = None }

InitConcurrent ==
    /\ configuration \in Configurations
    /\ config = Constructor(configuration)
    /\ calls = [c \in ConcurrentCallers |-> IdleCall]
    /\ ledger = <<>>

ConcurrentChargeByToken(c) ==
    /\ calls[c].pc = "idle"
    /\ \E a \in ConcurrentChargeArgs :
         calls' = [calls EXCEPT ![c] =
                     EnterLoop(config.stripeSecretKey,
                               [@ EXCEPT !.op = "createChargeByToken", !.args = a])]
    /\ UNCHANGED <<configuration, config, ledger>>

ConcurrentRefundForCharge(c) ==
    /\ calls[c].pc = "idle"
    /\ \E a \in ConcurrentRefundArgs :
         calls' = [calls EXCEPT ![c] =
                     EnterLoop(config.stripeSecretKey,
                               [@ EXCEPT !.op = "createRefundForCharge", !.args = a])]
    /\ UNCHANGED <<configuration, config, ledger>>

NextConcurrent ==
    \E c \in DOMAIN calls :
        \/ ConcurrentChargeByToken(c)
        \/ ConcurrentRefundForCharge(c)
        \/ CreateResolve(c)
        \/ CreateReject(c)
        \/ DelayElapsed(c)

SpecConcurrent == InitConcurrent /\ [][NextConcurrent]_vars

IsCharge(s) == s.op \in {"createChargeByToken", "createChargeByCard"}

IsRefund(s) == s.op = "createRefundForCharge"

IsCreate(request) == request.api \in {"charges.create", "refunds.create"}

\* The create calls (charges.create / refunds.create) a call has attempted.
Attempts(s) == SelectSeq(s.sent, IsCreate)

\* The provider's answers to those attempts: createChargeByCard's first
\* reply answers the token exchange.
AttemptReplies(s) ==
    IF s.op = "createChargeByCard" /\ s.replies # <<>> THEN Tail(s.replies) ELSE s.replies

Failed(reply) == ~reply.ok

AllFailed(s) == \A i \in 1..Len(AttemptReplies(s)) : Failed(AttemptReplies(s)[i])

NoInvalidRequest(s) ==
    \A i \in 1..Len(AttemptReplies(s)) :
        Failed(AttemptReplies(s)[i]) =>
            AttemptReplies(s)[i].value.rawType # "invalid_request_error"

RECURSIVE SumSeq(_)
SumSeq(q) == IF q = <<>> THEN 0 ELSE Head(q) + SumSeq(Tail(q))

(***************************************************************************)
(* C1: one call of createChargeByToken, createChargeByCard or              *)
(* createRefundForCharge attempts the provider's create call at most 3     *)
(* times, and exactly 3 times when it has ended and every attempt failed   *)
(* with an error that is not of the invalid-request class.                 *)
(***************************************************************************)
C1_AtMostThreeAttempts ==
    \A c \in DOMAIN calls :
        LET s == calls[c] IN
        /\ Len(Attempts(s)) <= 3
        /\ (/\ IsCharge(s) \/ IsRefund(s)
            /\ s.pc = "done"
            /\ AttemptReplies(s) # <<>>
            /\ AllFailed(s)
            /\ NoInvalidRequest(s)) => Len(Attempts(s)) = 3

C1_Witness ==
    \E c \in DOMAIN calls :
        LET s == calls[c] IN
        /\ IsCharge(s) \/ IsRefund(s)
        /\ s.pc = "done"
        /\ Len(Attempts(s)) = 3
        /\ AllFailed(s)
        /\ NoInvalidRequest(s)

(***************************************************************************)
(* C2: the waits of one call are 1000 ms after the 1st failed attempt and  *)
(* 2000 ms after the 2nd; there is no wait before the 1st attempt and none *)
(* after the 3rd failed attempt, so the waits of a call sum to at most     *)
(* 3000 ms.                                                                *)
(***************************************************************************)
C2_BackoffDoubles ==
    \A c \in DOMAIN calls :
        LET s == calls[c] IN
        /\ \A i \in 1..Len(s.waits) : s.waits[i] = IF i = 1 THEN 1000 ELSE 2000
        /\ Len(s.waits) <= 2
        /\ Attempts(s) = <<>> => s.waits = <<>>
        /\ Attempts(s) # <<>> =>
              Len(s.waits) = IF s.pc = "awaitDelay" THEN Len(Attempts(s))
                                                    ELSE Len(Attempts(s)) - 1
        /\ SumSeq(s.waits) <= 3000

C2_Witness ==
    \E c \in DOMAIN calls :
        LET s == calls[c] IN
        /\ s.pc = "done"
        /\ s.result.kind = "throw"
        /\ Len(Attempts(s)) = 3
        /\ s.waits = <<1000, 2000>>

(***************************************************************************)
(* C3: when an attempt of a charge call succeeds, the call has returned    *)
(* exactly the charge object the provider answered that attempt with, and  *)
(* no provider call and no wait follows the successful attempt.            *)
(***************************************************************************)
C3_SuccessReturnsCharge ==
    \A c \in DOMAIN calls :
        LET s == calls[c]
            n == Len(AttemptReplies(s))
        IN (IsCharge(s) /\ n > 0 /\ AttemptReplies(s)[n].ok) =>
              /\ s.pc = "done"
              /\ s.result = [kind |-> "return", value |-> Some(AttemptReplies(s)[n].value)]
              /\ Len(Attempts(s)) = n
              /\ Len(s.waits) = n - 1

C3_Witness ==
    \E c \in DOMAIN calls :
        LET s == calls[c]
            n == Len(AttemptReplies(s))
        IN /\ IsCharge(s)
           /\ n = 3
           /\ AttemptReplies(s)[n].ok
           /\ s.result.kind = "return"

(***************************************************************************)
(* C4: a charge call raises a ChargeError only after exactly 3 failed      *)
(* charge attempts, the ChargeError wraps the error of the 3rd attempt,    *)
(* and no error class (declined card and invalid request included) ends    *)
(* the retries before the 3rd attempt.                                     *)
(***************************************************************************)
C4_ChargeErrorAfterThree ==
    \A c \in DOMAIN calls :
        LET s == calls[c]
            r == AttemptReplies(s)
            n == Len(r)
        IN IsCharge(s) =>
            /\ (s.result.kind = "throw" /\ n > 0) =>
                  /\ n = 3
                  /\ AllFailed(s)
                  /\ s.result.value =
                        Some([name |-> "ChargeError",
                              message |-> "Error: " \o r[3].value.message])
            /\ (n > 0 /\ n < 3 /\ Failed(r[n])) => s.pc \in {"awaitDelay", "awaitCreate"}

C4_Witness ==
    \E c \in DOMAIN calls :
        LET s == calls[c]
            r == AttemptReplies(s)
        IN /\ IsCharge(s)
           /\ s.result.kind = "throw"
           /\ Len(r) = 3
           /\ r[1].value.rawType = "card_error"
           /\ r[2].value.rawType = "invalid_request_error"
           /\ r[3].value.rawType = "api_connection_error"

(***************************************************************************)
(* C5: every charge attempt of one charge call carries the same            *)
(* idempotency key, the idempotency_key the caller supplied.               *)
(***************************************************************************)
C5_SameIdempotencyKey ==
    \A c \in DOMAIN calls :
        LET s == calls[c] IN
        IsCharge(s) =>
            \A i \in 1..Len(Attempts(s)) :
                Attempts(s)[i].options.idempotency_key = s.args.idempotency_key

C5_Witness ==
    \E c \in DOMAIN calls :
        LET s == calls[c] IN
        /\ s.op = "createChargeByCard"
        /\ Len(Attempts(s)) = 3
        /\ s.args.idempotency_key = Some("k2")

(***************************************************************************)
(* C6: against a provider that deduplicates by idempotency key, and that   *)
(* may apply an attempt it reports as failed, one charge call creates at   *)
(* most one charge, however many of its attempts are applied.              *)
(***************************************************************************)
ChargesCreatedBy(c) ==
    { i \in 1..Len(ledger) : ledger[i].object = "charge" /\ ledger[i].by = c }

AppliedAttempts(s) ==
    { i \in 1..Len(AttemptReplies(s)) : AttemptReplies(s)[i].applied }

C6_AtMostOneCharge ==
    \A c \in DOMAIN calls :
        IsCharge(calls[c]) => Cardinality(ChargesCreatedBy(c)) <= 1

C6_Witness ==
    \E c \in DOMAIN calls :
        /\ calls[c].op = "createChargeByToken"
        /\ Cardinality(AppliedAttempts(calls[c])) = 3
        /\ Cardinality(ChargesCreatedBy(c)) = 1

(***************************************************************************)
(* C7: when an attempt of createRefundForCharge fails with an              *)
(* invalid-request class error, the call does not raise: it returns the    *)
(* object with id 'STRIPE_DASHBOARD', the provider's error message as      *)
(* balance_transaction, the requested amount (undefined for a full         *)
(* refund) as amount and the charge id passed in as charge.                *)
(***************************************************************************)
C7_DashboardSentinel ==
    \A c \in DOMAIN calls :
        LET s == calls[c]
            r == AttemptReplies(s)
        IN IsRefund(s) =>
            \A i \in 1..Len(r) :
                (Failed(r[i]) /\ r[i].value.rawType = "invalid_request_error") =>
                    /\ s.pc = "done"
                    /\ s.result.kind = "return"
                    /\ s.result.value =
                          Some([id |-> "STRIPE_DASHBOARD",
                                balance_transaction |-> r[i].value.message,
                                amount |-> s.args.amountInCents,
                                charge |-> s.args.chargeToken])

C7_Witness ==
    \E c \in DOMAIN calls :
        LET s == calls[c]
            r == AttemptReplies(s)
        IN /\ IsRefund(s)
           /\ Len(r) = 2
           /\ AllFailed(s)
           /\ r[2].value.rawType = "invalid_request_error"
           /\ s.args.amountInCents = None
           /\ s.result.kind = "return"

(***************************************************************************)
(* C8: in createRefundForCharge an invalid-request class error is never    *)
(* retried: it is the answer to the last attempt of the call and no wait   *)
(* follows it, on whichever attempt it occurs.                             *)
(***************************************************************************)
C8_InvalidRequestNotRetried ==
    \A c \in DOMAIN calls :
        LET s == calls[c]
            r == AttemptReplies(s)
        IN IsRefund(s) =>
            \A i \in 1..Len(r) :
                (Failed(r[i]) /\ r[i].value.rawType = "invalid_request_error") =>
                    /\ Len(Attempts(s)) = i
                    /\ Len(s.waits) = i - 1
                    /\ s.pc = "done"

C8_Witness ==
    \E c \in DOMAIN calls :
        LET s == calls[c]
            r == AttemptReplies(s)
        IN /\ IsRefund(s)
           /\ Len(r) = 3
           /\ AllFailed(s)
           /\ r[1].value.rawType = "api_connection_error"
           /\ r[2].value.rawType = "card_error"
           /\ r[3].value.rawType = "invalid_request_error"
           /\ s.pc = "done"

(***************************************************************************)
(* C9: createRefundForCharge raises only a RefundError, only when 3 refund *)
(* attempts have failed and none of them reported an invalid-request class *)
(* error; the RefundError wraps the error of the 3rd attempt, and a call   *)
(* that met an invalid-request error raises nothing.                       *)
(***************************************************************************)
C9_RefundErrorAfterThree ==
    \A c \in DOMAIN calls :
        LET s == calls[c]
            r == AttemptReplies(s)
        IN IsRefund(s) =>
            /\ s.result.kind = "throw" =>
                  /\ Len(r) = 3
                  /\ AllFailed(s)
                  /\ NoInvalidRequest(s)
                  /\ s.result.value =
                        Some([name |-> "RefundError",
                              message |-> "Error: " \o r[3].value.message])
            /\ ~NoInvalidRequest(s) => s.result.kind # "throw"

C9_Witness ==
    \E c \in DOMAIN calls :
        LET s == calls[c]
            r == AttemptReplies(s)
        IN /\ IsRefund(s)
           /\ s.result.kind = "throw"
           /\ Len(r) = 3
           /\ r[1].value.rawType = "api_connection_error"
           /\ r[3].value.rawType = "card_error"

(***************************************************************************)
(* C10: when the caller omits the reason of createRefundForCharge, every   *)
(* refund attempt is sent with reason 'requested_by_customer', one of      *)
(* duplicate, fraudulent, requested_by_customer; when the caller omits the *)
(* refund-application-fee flag it is sent as true.                         *)
(***************************************************************************)
C10_RefundDefaults ==
    \A c \in DOMAIN calls :
        LET s == calls[c] IN
        IsRefund(s) =>
            \A i \in 1..Len(Attempts(s)) :
                /\ s.args.reason = None =>
                      /\ Attempts(s)[i].params.reason = "requested_by_customer"
                      /\ Attempts(s)[i].params.reason \in RefundReasons
                /\ s.args.refundApplicationFee = None =>
                      Attempts(s)[i].params.refund_application_fee = TRUE

(***************************************************************************)
(* C11: createChargeByCard exchanges the card for a token, scoped to the   *)
(* target connected account, before any charge attempt: no charge attempt  *)
(* is sent before the exchange has succeeded, and when the exchange fails  *)
(* no charge attempt is sent at all.                                       *)
(***************************************************************************)
C11_ExchangeBeforeCharge ==
    \A c \in DOMAIN calls :
        LET s == calls[c] IN
        s.op = "createChargeByCard" =>
            /\ s.sent[1].api = "tokens.create"
            /\ s.sent[1].params.card = s.args.source
            /\ s.sent[1].options.stripe_account = s.args.stripeAccount
            /\ \A i \in 2..Len(s.sent) : s.sent[i].api = "charges.create"
            /\ Attempts(s) # <<>> => (s.replies # <<>> /\ s.replies[1].ok)
            /\ (s.replies # <<>> /\ ~s.replies[1].ok) =>
                  (Attempts(s) = <<>> /\ s.pc = "done")

C11_Witness ==
    \E c \in DOMAIN calls :
        LET s == calls[c] IN
        /\ s.op = "createChargeByCard"
        /\ s.replies # <<>>
        /\ ~s.replies[1].ok
        /\ s.pc = "done"

(***************************************************************************)
(* createChargeByToken replayed over a sequence of provider replies: the   *)
(* call as it stands when the last of the replies has been handled.        *)
(***************************************************************************)
ByTokenStart(secretKey, a) ==
    EnterLoop(secretKey, [IdleCall EXCEPT !.op = "createChargeByToken", !.args = a])

ByTokenResume(secretKey, t) ==
    IF t.pc = "awaitDelay" THEN LoopHead(secretKey, AfterDelay(t)) ELSE t

ByTokenStep(secretKey, t, reply) ==
    LET logged == [ByTokenResume(secretKey, t) EXCEPT !.replies = Append(@, reply)]
    IN IF reply.ok THEN CreateReturn(logged, reply.value)
                   ELSE ChargeCatch(logged, reply.value)

RECURSIVE ByTokenRun(_, _, _)
ByTokenRun(secretKey, a, replies) ==
    IF replies = <<>>
    THEN ByTokenStart(secretKey, a)
    ELSE ByTokenStep(secretKey,
                     ByTokenRun(secretKey, a, SubSeq(replies, 1, Len(replies) - 1)),
                     replies[Len(replies)])

\* The createChargeByToken call that corresponds to the createChargeByCard
\* call s: the derived token as source, the other arguments the same, the
\* same provider replies, and the same progress of the pending wait.
TokenTwin(s) ==
    LET a == [s.args EXCEPT !.source = s.cardToken[1].id]
        t == ByTokenRun(config.stripeSecretKey, a, AttemptReplies(s))
    IN IF s.pc = "awaitCreate" THEN ByTokenResume(config.stripeSecretKey, t) ELSE t

SameCourse(s, t) ==
    /\ Len(Attempts(s)) = Len(t.sent)
    /\ s.waits = t.waits
    /\ s.pc = t.pc
    /\ s.result = t.result

(***************************************************************************)
(* C12 (as claimed): after the token exchange createChargeByCard sends the *)
(* same charge request fields as createChargeByToken called with the       *)
(* derived token (amount, currency, description, customer, application     *)
(* fee, source, metadata, account header, idempotency key), makes the same *)
(* number of attempts and ends the same way.                               *)
(***************************************************************************)
C12_CardEqualsToken ==
    \A c \in DOMAIN calls :
        LET s == calls[c] IN
        (s.op = "createChargeByCard" /\ s.cardToken # None) =>
            /\ SameCourse(s, TokenTwin(s))
            /\ Attempts(s) = TokenTwin(s).sent

(***************************************************************************)
(* C12 (amended): as above, except for the customer field: the charge      *)
(* request of createChargeByCard carries no customer, whatever customer    *)
(* the caller passed, while createChargeByToken sends the caller's         *)
(* customer.                                                               *)
(***************************************************************************)
C12_CardEqualsTokenButCustomer ==
    \A c \in DOMAIN calls :
        LET s == calls[c] IN
        (s.op = "createChargeByCard" /\ s.cardToken # None) =>
            /\ SameCourse(s, TokenTwin(s))
            /\ \A i \in 1..Len(Attempts(s)) :
                  /\ Attempts(s)[i] = [TokenTwin(s).sent[i] EXCEPT !.params.customer = None]
                  /\ TokenTwin(s).sent[i].params.customer = s.args.customer

C12_Witness ==
    \E c \in DOMAIN calls :
        LET s == calls[c] IN
        /\ s.op = "createChargeByCard"
        /\ s.cardToken # None
        /\ s.args.customer # None
        /\ Len(Attempts(s)) = 3
        /\ s.pc = "done"

(***************************************************************************)
(* C13: every failure of every public operation reaches the caller as a    *)
(* CardError, ChargeError, RefundError or StripeAuthorisationError; no     *)
(* outbound call, the token exchange of createChargeByCard included, can   *)
(* fail in a way that surfaces a raw provider or transport error.          *)
(***************************************************************************)
TypedErrors == {"CardError", "ChargeError", "RefundError", "StripeAuthorisationError"}

C13_OnlyTypedErrors ==
    \A c \in DOMAIN calls :
        calls[c].result.kind = "throw" => calls[c].result.value[1].name \in TypedErrors

(***************************************************************************)
(* C14: createCustomer, retrieveToken, createCard, removeCard, loadCards   *)
(* and loadCharges make exactly one provider call per invocation; when it  *)
(* fails the operation raises at once a CardError wrapping the provider's  *)
(* error, without a wait or a second attempt.                              *)
(***************************************************************************)
C14_SingleAttempt ==
    \A c \in DOMAIN calls :
        LET s == calls[c] IN
        s.op \in SimpleOps =>
            /\ Len(s.sent) = 1
            /\ s.waits = <<>>
            /\ (s.replies # <<>> /\ Failed(s.replies[1])) =>
                  /\ s.pc = "done"
                  /\ Len(s.replies) = 1
                  /\ s.result = [kind |-> "throw",
                                 value |-> Some([name |-> "CardError",
                                                 message |-> "Error: " \o
                                                     s.replies[1].value.message])]

C14_Witness ==
    \E c \in DOMAIN calls :
        LET s == calls[c] IN
        /\ s.op = "loadCharges"
        /\ s.replies # <<>>
        /\ Failed(s.replies[1])
        /\ s.result.kind = "throw"

(***************************************************************************)
(* C15: loadCards returns a sequence of the same length and order as the   *)
(* provider's card list; the i-th PaymentCard has id, brand,               *)
(* expirationMonth, expirationYear and lastFourDigits equal to the i-th    *)
(* provider card's id, brand, exp_month, exp_year and last4, so provider   *)
(* cards that differ in one of these fields map to different PaymentCards; *)
(* createCard maps its single card the same way.                           *)
(***************************************************************************)
MapsCard(paymentCard, stripeCard) ==
    /\ paymentCard.id = stripeCard.id
    /\ paymentCard.brand = stripeCard.brand
    /\ paymentCard.expirationMonth = stripeCard.exp_month
    /\ paymentCard.expirationYear = stripeCard.exp_year
    /\ paymentCard.lastFourDigits = stripeCard.last4

SameCardFields(x, y) ==
    /\ x.id = y.id
    /\ x.brand = y.brand
    /\ x.exp_month = y.exp_month
    /\ x.exp_year = y.exp_year
    /\ x.last4 = y.last4

C15_CardMapping ==
    \A c \in DOMAIN calls :
        LET s == calls[c] IN
        /\ (s.op = "loadCards" /\ s.result.kind = "return") =>
              LET data == s.replies[1].value.data
                  cards == s.result.value[1]
              IN /\ Len(cards) = Len(data)
                 /\ \A i \in 1..Len(data) : MapsCard(cards[i], data[i])
                 /\ \A i, j \in 1..Len(data) :
                       ~SameCardFields(data[i], data[j]) => cards[i] # cards[j]
        /\ (s.op = "createCard" /\ s.result.kind = "return") =>
              MapsCard(s.result.value[1], s.replies[1].value)

C15_Witness ==
    \E c \in DOMAIN calls :
        LET s == calls[c] IN
        /\ s.op = "loadCards"
        /\ s.result.kind = "return"
        /\ Len(s.result.value[1]) = 2
        /\ s.replies[1].value.data[1].id = "card_2"
        /\ s.replies[1].value.data[2].id = "card_1"

(***************************************************************************)
(* C16: the form posted by connectAccountToStripeConnect carries           *)
(* grant_type, client_id and client_secret (the secret key) and exactly    *)
(* one of code and refresh_token: code holds the caller's value when the   *)
(* grant type is authorization_code (the default when it is omitted),      *)
(* refresh_token holds it when the grant type is refresh_token.            *)
(***************************************************************************)
C16_ConnectForm ==
    \A c \in DOMAIN calls :
        LET s == calls[c] IN
        s.op = "connectAccountToStripeConnect" =>
            LET form == s.sent[1].form
                grant == IF s.args.grantType = None THEN "authorization_code"
                                                    ELSE s.args.grantType[1]
            IN /\ form.grant_type = grant
               /\ form.client_id = config.stripeClientId
               /\ form.client_secret = config.stripeSecretKey
               /\ (form.code = None) # (form.refresh_token = None)
               /\ grant = "authorization_code" => form.code = Some(s.args.tokenOrCode)
               /\ grant = "refresh_token" => form.refresh_token = Some(s.args.tokenOrCode)

C16_Witness ==
    \E c \in DOMAIN calls :
        LET s == calls[c] IN
        /\ s.op = "connectAccountToStripeConnect"
        /\ s.args.grantType = Some("refresh_token")
        /\ s.sent[1].form.refresh_token = Some("ac_123")

(***************************************************************************)
(* C17: connectAccountToStripeConnect and                                  *)
(* disconnectAccountFromStripeConnect send exactly one HTTP POST per       *)
(* invocation; when it fails the operation raises a                        *)
(* StripeAuthorisationError without a wait or a second POST.               *)
(***************************************************************************)
IsOAuth(s) ==
    s.op \in {"connectAccountToStripeConnect", "disconnectAccountFromStripeConnect"}

C17_SinglePost ==
    \A c \in DOMAIN calls :
        LET s == calls[c] IN
        IsOAuth(s) =>
            /\ Len(s.sent) = 1
            /\ s.sent[1].method = "POST"
            /\ s.waits = <<>>
            /\ (s.replies # <<>> /\ Failed(s.replies[1])) =>
                  /\ s.pc = "done"
                  /\ Len(s.replies) = 1
                  /\ s.result = [kind |-> "throw",
                                 value |-> Some([name |-> "StripeAuthorisationError",
                                                 message |-> s.replies[1].value.error[1]])]

C17_Witness ==
    \E c \in DOMAIN calls :
        LET s == calls[c] IN
        /\ s.op = "disconnectAccountFromStripeConnect"
        /\ s.replies # <<>>
        /\ Failed(s.replies[1])
        /\ s.result.kind = "throw"

(***************************************************************************)
(* C18: every outbound call of createChargeByToken, createChargeByCard     *)
(* (the token exchange and each charge attempt), createRefundForCharge     *)
(* (each refund attempt) and loadCharges carries as stripe_account the     *)
(* connected account id the caller passed to that call.                    *)
(***************************************************************************)
C18_AccountOnEveryCall ==
    \A c \in DOMAIN calls :
        LET s == calls[c] IN
        /\ (IsCharge(s) \/ IsRefund(s)) =>
              \A i \in 1..Len(s.sent) :
                  s.sent[i].options.stripe_account = s.args.stripeAccount
        /\ s.op = "loadCharges" =>
              \A i \in 1..Len(s.sent) :
                  s.sent[i].options = Some([stripe_account |-> s.args.stripeAccount])

C18_Witness ==
    \E c \in DOMAIN calls :
        LET s == calls[c] IN
        /\ s.op = "createChargeByCard"
        /\ s.args.stripeAccount = "acct_Y"
        /\ Len(s.sent) = 4

(***************************************************************************)
(* C19: after construction no public operation, whether it succeeds or     *)
(* fails, changes the client's secret key, client id, authorize URL or     *)
(* de-authorize URL: they stay equal to the values of the configuration    *)
(* object at construction time.                                            *)
(***************************************************************************)
C19_ConfigurationImmutable ==
    /\ config.stripeSecretKey = configuration.stripeSecretKey
    /\ config.stripeClientId = configuration.stripeClientId
    /\ config.stripeConnectAuthorizeURL = configuration.stripeConnectAuthorizeURL
    /\ config.stripeConnectDeAuthorizeURL = configuration.stripeConnectDeAuthorizeURL

C19_Witness ==
    \E c \in DOMAIN calls :
        /\ calls[c].op = "connectAccountToStripeConnect"
        /\ calls[c].result.kind = "throw"
        /\ config.stripeConnectAuthorizeURL = "https://connect.example.com/oauth/token"

(***************************************************************************)
(* C20: createChargeByToken and createChargeByCard, invoked as (connected  *)
(* account, token or card id, ChargeParameters), send a charge request     *)
(* whose amount, currency, description, application fee, metadata and      *)
(* idempotency key equal the amountInCents, currency, description,         *)
(* applicationFeeInCents, metadata and idempotency_key fields of that      *)
(* ChargeParameters value.                                                 *)
(***************************************************************************)
C20_RequestFromChargeParameters ==
    \A c \in DOMAIN calls :
        LET s == calls[c] IN
        IsCharge(s) =>
            LET p == s.args.customer[1] IN
            \A i \in 1..Len(Attempts(s)) :
                LET request == Attempts(s)[i] IN
                /\ request.params.amount = Some(p.amountInCents)
                /\ request.params.currency = Some(p.currency)
                /\ request.params.description = Some(p.description)
                /\ request.params.application_fee = Some(p.applicationFeeInCents)
                /\ request.params.metadata = Some(p.metadata)
                /\ request.options.idempotency_key = Some(p.idempotency_key)

(***************************************************************************)
(* C21: within one charge or refund call at most one provider attempt is   *)
(* outstanding at any moment: a step sends an attempt only when the call   *)
(* starts its loop or when the backoff wait after the failed previous      *)
(* attempt elapses, every earlier attempt has then been answered with a    *)
(* failure, and no attempt is sent while a wait is in progress.            *)
(***************************************************************************)
Outstanding(s) == Len(Attempts(s)) - Len(AttemptReplies(s))

SendsAttempt(c) == Len(Attempts(calls'[c])) > Len(Attempts(calls[c]))

C21_SequentialAttempts ==
    [][\A c \in DOMAIN calls :
          LET s == calls[c]
              t == calls'[c]
          IN (IsCharge(t) \/ IsRefund(t)) =>
                /\ Outstanding(t) \in {0, 1}
                /\ t.pc = "awaitDelay" => Outstanding(t) = 0
                /\ SendsAttempt(c) =>
                      /\ s.pc \in {"idle", "awaitToken", "awaitDelay"}
                      /\ Outstanding(s) = 0
                      /\ Len(Attempts(t)) = Len(Attempts(s)) + 1
                      /\ AllFailed(s)
                      /\ Len(s.waits) = Len(Attempts(s))]_vars

C21_Witness ==
    \E c \in DOMAIN calls :
        LET s == calls[c] IN
        /\ IsRefund(s)
        /\ Len(Attempts(s)) = 3
        /\ Outstanding(s) = 1
        /\ s.waits = <<1000, 2000>>

(***************************************************************************)
(* C22: when two retried calls on the same client instance interleave in   *)
(* any order, each keeps its own attempt counter and backoff delay: each   *)
(* makes at most 3 attempts and waits 1000 then 2000 ms, and each call's   *)
(* attempts, waits, counters and outcome are exactly those of the same     *)
(* call running alone and receiving the same provider answers, whatever    *)
(* the other call does.                                                    *)
(***************************************************************************)
AloneStart(secretKey, op, a) ==
    EnterLoop(secretKey, [IdleCall EXCEPT !.op = op, !.args = a])

AloneResume(secretKey, t) ==
    IF t.pc = "awaitDelay" THEN LoopHead(secretKey, AfterDelay(t)) ELSE t

AloneStep(secretKey, t, reply) ==
    LET logged == [AloneResume(secretKey, t) EXCEPT !.replies = Append(@, reply)]
    IN IF reply.ok THEN CreateReturn(logged, reply.value)
       ELSE IF t.op = "createRefundForCharge" THEN RefundCatch(logged, reply.value)
       ELSE ChargeCatch(logged, reply.value)

RECURSIVE AloneRun(_, _, _, _)
AloneRun(secretKey, op, a, replies) ==
    IF replies = <<>>
    THEN AloneStart(secretKey, op, a)
    ELSE AloneStep(secretKey,
                   AloneRun(secretKey, op, a, SubSeq(replies, 1, Len(replies) - 1)),
                   replies[Len(replies)])

\* The call s had it been the only call on the instance, with the same
\* arguments, the same provider answers and the same progress of its
\* pending wait.
Alone(s) ==
    LET t == AloneRun(config.stripeSecretKey, s.op, s.args, s.replies)
    IN IF s.pc = "awaitCreate" THEN AloneResume(config.stripeSecretKey, t) ELSE t

Interleaved ==
    \A c \in DOMAIN calls : calls[c].pc # "idle" /\ calls[c].replies # <<>>

C22_IndependentCalls ==
    \A c \in DOMAIN calls :
        LET s == calls[c] IN
        s.pc # "idle" =>
            /\ Len(Attempts(s)) <= 3
            /\ s.waits = SubSeq(<<1000, 2000>>, 1, Len(s.waits))
            /\ s.retries = Len(s.waits) - (IF s.pc = "awaitDelay" THEN 1 ELSE 0)
            /\ s = Alone(s)

C22_Witness ==
    /\ Cardinality(DOMAIN calls) = 2
    /\ Interleaved
    /\ \E c, d \in DOMAIN calls :
          /\ c # d
          /\ calls[c].pc = "done" /\ calls[c].result.kind = "throw"
          /\ Len(Attempts(calls[c])) = 3
          /\ calls[d].pc = "awaitDelay"
          /\ calls[d].waits = <<1000>>
          /\ Len(calls[d].replies) = 1
          /\ Len(calls[c].replies) = 3

(***************************************************************************)
(* C23: a retried call never completes without a value: the loop is left   *)
(* only through a return or a throw, so createChargeByToken and            *)
(* createChargeByCard end with a provider charge object or a ChargeError,  *)
(* and createRefundForCharge ends with exactly one of a provider refund    *)
(* object, the STRIPE_DASHBOARD sentinel, or a RefundError.                *)
(***************************************************************************)
IsProviderObject(v, kind) ==
    /\ "object" \in DOMAIN v
    /\ v.object = kind
    /\ \E i \in 1..Len(ledger) : ledger[i] = v

IsSentinel(v) ==
    /\ "balance_transaction" \in DOMAIN v
    /\ v.id = "STRIPE_DASHBOARD"

EndsWithObject(s, kind) ==
    s.result.kind = "return" /\ IsProviderObject(s.result.value[1], kind)

EndsWithSentinel(s) ==
    s.result.kind = "return" /\ IsSentinel(s.result.value[1])

EndsWithError(s, name) ==
    s.result.kind = "throw" /\ s.result.value[1].name = name

C23_EndsWithValue ==
    \A c \in DOMAIN calls :
        LET s == calls[c] IN
        s.pc = "done" =>
            /\ (IsCharge(s) \/ IsRefund(s)) => s.result.value # None
            /\ IsCharge(s) =>
                  EndsWithObject(s, "charge") \/ EndsWithError(s, "ChargeError")
            /\ IsRefund(s) =>
                  \/ EndsWithObject(s, "refund")
                  \/ EndsWithSentinel(s)
                  \/ EndsWithError(s, "RefundError")

\* The same with the failure of the token exchange set aside.
C23_EndsWithValueInLoop ==
    \A c \in DOMAIN calls :
        LET s == calls[c] IN
        s.pc = "done" /\ (IsCharge(s) \/ IsRefund(s)) /\ Attempts(s) # <<>> =>
            /\ s.result.value # None
            /\ IsCharge(s) =>
                  EndsWithObject(s, "charge") \/ EndsWithError(s, "ChargeError")
            /\ IsRefund(s) =>
                  \/ EndsWithObject(s, "refund")
                  \/ EndsWithSentinel(s)
                  \/ EndsWithError(s, "RefundError")

(***************************************************************************)
(* C24: provided every provider call and every backoff wait eventually     *)
(* completes, every call of createChargeByToken, createChargeByCard and    *)
(* createRefundForCharge eventually terminates, whatever successes and     *)
(* failures the provider answers with.                                     *)
(***************************************************************************)
C24_Terminates ==
    \A c \in Callers :
        (IsCharge(calls[c]) \/ IsRefund(calls[c])) ~> (calls[c].pc = "done")

C24_Witness ==
    \E c \in DOMAIN calls :
        LET s == calls[c] IN
        /\ s.op = "createChargeByCard"
        /\ s.pc = "done"
        /\ Len(s.sent) = 4
        /\ s.waits = <<1000, 2000>>
        /\ s.result.kind = "throw"

(***************************************************************************)
(* C25: createChargeByCard performs the token exchange exactly once per    *)
(* call, before the retry loop and never inside it: all of its up to 3     *)
(* charge attempts use the id of that one derived token as source, so one  *)
(* call makes at most 4 outbound calls.                                    *)
(***************************************************************************)
IsExchange(request) == request.api = "tokens.create"

Exchanges(s) == SelectSeq(s.sent, IsExchange)

C25_OneExchange ==
    \A c \in DOMAIN calls :
        LET s == calls[c] IN
        s.op = "createChargeByCard" =>
            /\ Len(Exchanges(s)) = 1
            /\ IsExchange(s.sent[1])
            /\ s.sent[1] = TokenRequest(config.stripeSecretKey, s.args)
            /\ Len(Attempts(s)) <= 3
            /\ Len(s.sent) = 1 + Len(Attempts(s))
            /\ Len(s.sent) <= 4
            /\ Attempts(s) # <<>> =>
                  /\ s.replies[1].ok
                  /\ s.cardToken = Some(s.replies[1].value)
                  /\ \A i \in 1..Len(Attempts(s)) :
                        Attempts(s)[i].params.source = s.replies[1].value.id

C25_Witness ==
    \E c \in DOMAIN calls :
        LET s == calls[c] IN
        /\ s.op = "createChargeByCard"
        /\ Len(s.sent) = 4
        /\ s.pc = "done"
        /\ s.result.kind = "return"
        /\ s.replies[1].value.id = "tok_2"
        /\ s.sent[4].params.source = "tok_2"

(***************************************************************************)
(* C26: one call of createRefundForCharge causes at most one refund to be  *)
(* created at the provider for the charge, even when the provider applies  *)
(* an attempt but reports it as a failure that is not of the               *)
(* invalid-request class and the call retries.                             *)
(***************************************************************************)
RefundsCreatedBy(c) ==
    { i \in 1..Len(ledger) : ledger[i].object = "refund" /\ ledger[i].by = c }

C26_AtMostOneRefund ==
    \A c \in DOMAIN calls :
        IsRefund(calls[c]) => Cardinality(RefundsCreatedBy(c)) <= 1

====
